---- MODULE Spec2Model ----
(***************************************************************************)
(* PyDrop (src/pydrop.py): UDP broadcast discovery, the device registry    *)
(* it feeds, and the HTTP upload handler.                                  *)
(*                                                                         *)
(* Byte strings and text are sequences of one-character strings, so that   *)
(* decode, startswith, split and int are computed as Python computes them. *)
(***************************************************************************)
EXTENDS Integers, Sequences, FiniteSets, TLC

VARIABLES
    running,      \* UDPDiscovery.running
    sock,         \* UDPDiscovery.sock: 0 is None, i > 0 the socket made by listener i
    nStarts,      \* number of start() calls so far (thread i is spawned by call i)
    lpc,          \* lpc[i]: position of listener thread i in _listen_loop
    bpc,          \* bpc[i]: position of broadcaster thread i in _broadcast_loop
    sockState,    \* sockState[i]: state of the socket object made by listener i
    lsock,        \* lsock[i]: the socket listener i's recvfrom was called on (0: none)
    net,          \* datagrams in flight on the broadcast domain
    nSent,        \* datagrams put on the discovery port by other senders so far
    devices,      \* PyDropServer.devices: device_id -> Device
    clock,        \* datetime.now(): a reading that grows with every Device built
    nRx,          \* number of datagrams recvfrom has returned
    lastRx,       \* the datagram recvfrom returned last, with the local ip computed for it
    calls,        \* the Devices on_device_found has been invoked with, in order
    events,       \* gui_callback invocations, in order
    nWs,          \* WebSocket announce messages handled so far
    posix,        \* TRUE: paths resolve as on POSIX; FALSE: as on Windows
    dirs,         \* the directories that exist
    files,        \* the files that exist: path -> content
    files0,       \* the files that existed when the server was constructed
    reqs,         \* reqs[r]: upload request r and the position of its handler
    received_files, \* PyDropServer.received_files: file_id -> record
    fileEvents,   \* gui_callback('file_received', ...) invocations, in order
    snd,          \* the GUI of a sending device: its _upload_file call and what it returned
    sent,         \* PyDropServer.sent_files, the file_sent events, and send_file_to_device's calls
    rt            \* an announcement built by one device and handled by another

discVars == <<running, sock, nStarts, lpc, bpc, sockState, lsock, net, nSent,
              devices, clock, nRx, lastRx, calls, events, nWs>>

upVars == <<posix, dirs, files, files0, reqs, received_files, fileEvents, snd,
            sent, rt>>

(***************************************************************************)
(* Bounds of the model.                                                    *)
(***************************************************************************)
MaxStarts == 2      \* start() calls in one run
MaxDatagrams == 2   \* datagrams other senders put on the discovery port in one run
MaxWs == 1          \* WebSocket announce messages in one run
MaxUploads == 2     \* upload requests in one run
ChunkBytes == 2     \* bytes one read_chunk returns at most (8192 in the program)
MaxSends == 2       \* _upload_file calls in one run

(***************************************************************************)
(* Program constants.                                                      *)
(***************************************************************************)
DISCOVERY_PORT == 8766
BROADCAST_PORT == 8767
RECV_BUF == 1024
WS_PORT == 8765
HTTP_PORT == 8080

\* b"PYDROP_ANNOUNCE" / "PYDROP_ANNOUNCE"
MESSAGE_ANNOUNCE == <<"P","Y","D","R","O","P","_","A","N","N","O","U","N","C","E">>

Digits == <<"0","1","2","3","4","5","6","7","8","9">>
DigitSet == {Digits[i] : i \in 1..10}
\* A byte that is no valid UTF-8 sequence on its own.
BadByte == "\\xff"

(***************************************************************************)
(* Python string operations.                                               *)
(***************************************************************************)
\* bytes.decode() succeeds (no UnicodeDecodeError); the text is then the same
\* characters, the other bytes of the model being ASCII.
DecodeOk(data) == \A i \in 1..Len(data) : data[i] # BadByte

\* str.startswith
StartsWith(s, p) ==
    /\ Len(s) >= Len(p)
    /\ SubSeq(s, 1, Len(p)) = p

\* str.split(sep) for a one-character separator: always at least one part.
RECURSIVE SplitFrom(_, _, _, _)
SplitFrom(s, sep, i, cur) ==
    IF i > Len(s) THEN <<cur>>
    ELSE IF s[i] = sep THEN <<cur>> \o SplitFrom(s, sep, i + 1, <<>>)
    ELSE SplitFrom(s, sep, i + 1, Append(cur, s[i]))

Split(s, sep) == SplitFrom(s, sep, 1, <<>>)

\* str.strip() of blanks
RECURSIVE LStrip(_)
LStrip(s) == IF s # <<>> /\ Head(s) = " " THEN LStrip(Tail(s)) ELSE s

RECURSIVE RStrip(_)
RStrip(s) ==
    IF s # <<>> /\ s[Len(s)] = " " THEN RStrip(SubSeq(s, 1, Len(s) - 1)) ELSE s

Strip(s) == LStrip(RStrip(s))

DigitVal(c) == (CHOOSE i \in 1..10 : Digits[i] = c) - 1

\* The digits of an int literal body: digits, single underscores between digits.
RECURSIVE DigitsOk(_, _)
DigitsOk(s, prevDigit) ==
    IF s = <<>> THEN prevDigit
    ELSE IF Head(s) \in DigitSet THEN DigitsOk(Tail(s), TRUE)
    ELSE IF Head(s) = "_" THEN prevDigit /\ DigitsOk(Tail(s), FALSE)
    ELSE FALSE

RECURSIVE DigitsVal(_, _)
DigitsVal(s, acc) ==
    IF s = <<>> THEN acc
    ELSE IF Head(s) = "_" THEN DigitsVal(Tail(s), acc)
    ELSE DigitsVal(Tail(s), 10 * acc + DigitVal(Head(s)))

Unsigned(s) == IF s # <<>> /\ Head(s) \in {"+", "-"} THEN Tail(s) ELSE s

\* int(s) succeeds: blanks stripped, an optional sign, then the digits.
IsInt(s) == DigitsOk(Unsigned(Strip(s)), FALSE)

\* int(s), where it succeeds
IntOf(s) ==
    LET t == Strip(s)
        v == DigitsVal(Unsigned(t), 0)
    IN IF t # <<>> /\ Head(t) = "-" THEN 0 - v ELSE v

\* str(n) for n >= 0, as an f-string formats an int
RECURSIVE StrOf(_)
StrOf(n) == IF n < 10 THEN <<Digits[n + 1]>> ELSE Append(StrOf(n \div 10), Digits[(n % 10) + 1])

(***************************************************************************)
(* Identities and addresses.                                               *)
(***************************************************************************)
\* uuid4().hex[:12]: hex characters only, shortened to one.
LocalId == <<"a">>
PeerId == <<"b">>
OtherId == <<"c">>
LocalName == <<"n">>
PeerName == <<"m">>

HostIp == "10.0.0.1"      \* this host's address on the LAN
Loopback == "127.0.0.1"
PeerIp == "10.0.0.2"
OtherIp == "10.0.0.3"

\* _get_local_ip(): the LAN address, or 127.0.0.1 when the probe socket fails.
LocalIps == {HostIp, Loopback}

Threads == 1..MaxStarts

Last(q) == q[Len(q)]

\* Device.__init__
Device(name, address, port, http_port, device_id, now) ==
    [name |-> name, address |-> address, port |-> port, http_port |-> http_port,
     device_id |-> device_id, last_seen |-> now]

\* f"PYDROP_ANNOUNCE|{device_id}|{device_name}|{http_port}".encode()
AnnounceMsg(device_id, device_name, http_port) ==
    MESSAGE_ANNOUNCE \o <<"|">> \o device_id \o <<"|">> \o device_name
        \o <<"|">> \o StrOf(http_port)

\* The port _broadcast_loop sends to.
BroadcastDestPort == BROADCAST_PORT

\* sock.sendto(msg.encode(), ('255.255.255.255', self.BROADCAST_PORT))
BroadcastDatagram(srcIp, device_id, device_name, http_port) ==
    [src |-> srcIp, dport |-> BroadcastDestPort,
     data |-> AnnounceMsg(device_id, device_name, http_port)]

(***************************************************************************)
(* UDPDiscovery._handle_message and PyDropServer._on_device_found.         *)
(***************************************************************************)
\* _handle_message with the name and id fields taken in the wrong order.
HandleMessageSwapped(data, addr, device_id, now) ==
    IF ~DecodeOk(data) THEN <<>>
    ELSE IF ~StartsWith(data, MESSAGE_ANNOUNCE) THEN <<>>
    ELSE LET parts == Split(data, "|") IN
         IF Len(parts) < 4 THEN <<>>
         ELSE IF parts[3] = device_id THEN <<>>
         ELSE IF ~IsInt(parts[4]) THEN <<>>
         ELSE <<Device(parts[2], addr, WS_PORT, IntOf(parts[4]), parts[3], now)>>

\* _handle_message without the comparison of the peer id with the own id.
HandleMessageNoSelfCheck(data, addr, device_id, now) ==
    IF ~DecodeOk(data) THEN <<>>
    ELSE IF ~StartsWith(data, MESSAGE_ANNOUNCE) THEN <<>>
    ELSE LET parts == Split(data, "|") IN
         IF Len(parts) < 4 THEN <<>>
         ELSE IF ~IsInt(parts[4]) THEN <<>>
         ELSE <<Device(parts[3], addr, WS_PORT, IntOf(parts[4]), parts[2], now)>>

\* The Device _handle_message passes to on_device_found, as a sequence of
\* at most one element: <<>> when the datagram is dropped (decode or int
\* raised, the prefix or the field count is wrong, or the id is the own id).
HandleMessage(data, addr, device_id, now) ==
    IF ~DecodeOk(data) THEN <<>>
    ELSE IF ~StartsWith(data, MESSAGE_ANNOUNCE) THEN <<>>
    ELSE LET parts == Split(data, "|") IN
         IF Len(parts) < 4 THEN <<>>
         ELSE IF parts[2] = device_id THEN <<>>
         ELSE IF ~IsInt(parts[4]) THEN <<>>
         ELSE <<Device(parts[3], addr, WS_PORT, IntOf(parts[4]), parts[2], now)>>

\* if addr[0] != local_ip: self._handle_message(data, addr[0])
Listened(m, local_ip, device_id, now) ==
    IF m.src # local_ip THEN HandleMessage(m.data, m.src, device_id, now) ELSE <<>>

\* The registry keyed by the display name instead of the id.
DeviceKeyByName(device) == device.name

\* The key under which a Device is stored in self.devices.
DeviceKey(device) == device.device_id

\* d[k] = v on a dict
DictSet(d, k, v) == [x \in (DOMAIN d) \cup {k} |-> IF x = k THEN v ELSE d[x]]

EmptyDict == [x \in {} |-> x]

\* gui_callback('device_found', {...})
DeviceFoundEvent(device) ==
    [type |-> "device_found", id |-> device.device_id, name |-> device.name,
     address |-> device.address, http_port |-> device.http_port]

\* _on_device_found: the registry after the call
\* _on_device_found keeping only the device found last.
OnDeviceFoundEvicting(devs, device) ==
    DictSet(EmptyDict, DeviceKey(device), device)

OnDeviceFoundDevices(devs, device) ==
    IF DeviceKey(device) \notin DOMAIN devs
    THEN DictSet(devs, DeviceKey(device), device)
    ELSE devs

\* _on_device_found: the events after the call
OnDeviceFoundEvents(devs, evs, device) ==
    IF DeviceKey(device) \notin DOMAIN devs
    THEN Append(evs, DeviceFoundEvent(device))
    ELSE evs

(***************************************************************************)
(* UDPDiscovery: start, stop and the two threads.                          *)
(***************************************************************************)
PortBound == \E j \in Threads : sockState[j] = "bound"

\* start(): no guard on self.running; two new threads per call.
Start ==
    /\ nStarts < MaxStarts
    /\ running' = TRUE
    /\ nStarts' = nStarts + 1
    /\ lpc' = [lpc EXCEPT ![nStarts + 1] = "create"]
    /\ bpc' = [bpc EXCEPT ![nStarts + 1] = "check"]
    /\ UNCHANGED <<sock, sockState, lsock, net, nSent, devices, clock, nRx, lastRx,
                   calls, events, nWs>>
    /\ UNCHANGED upVars

\* stop(): running = False; if self.sock: self.sock.close()
Stop ==
    /\ nStarts > 0
    /\ running' = FALSE
    /\ sockState' = IF sock # 0 THEN [sockState EXCEPT ![sock] = "closed"] ELSE sockState
    /\ UNCHANGED <<sock, nStarts, lpc, bpc, lsock, net, nSent, devices, clock, nRx,
                   lastRx, calls, events, nWs>>
    /\ UNCHANGED upVars

\* _listen_loop: self.sock = socket.socket(...); setsockopt; settimeout
ListenCreate(i) ==
    /\ lpc[i] = "create"
    /\ sockState' = [sockState EXCEPT ![i] = "open"]
    /\ sock' = i
    /\ lpc' = [lpc EXCEPT ![i] = "bind"]
    /\ UNCHANGED <<running, nStarts, bpc, lsock, net, nSent, devices, clock, nRx,
                   lastRx, calls, events, nWs>>
    /\ UNCHANGED upVars

\* self.sock.bind(('', DISCOVERY_PORT)): self.sock is read again here, so the
\* socket bound is the one stored last. It raises when that socket is closed
\* or the port is taken (no SO_REUSEADDR is set); the outer except then ends
\* the thread.
ListenBind(i) ==
    /\ lpc[i] = "bind"
    /\ IF sockState[sock] = "open" /\ ~PortBound
       THEN /\ sockState' = [sockState EXCEPT ![sock] = "bound"]
            /\ lpc' = [lpc EXCEPT ![i] = "check"]
       ELSE /\ lpc' = [lpc EXCEPT ![i] = "done"]
            /\ UNCHANGED sockState
    /\ UNCHANGED <<running, sock, nStarts, bpc, lsock, net, nSent, devices, clock,
                   nRx, lastRx, calls, events, nWs>>
    /\ UNCHANGED upVars

\* while self.running: ... self.sock.recvfrom(1024). The attribute self.sock
\* is read when recvfrom is called; on a closed socket the call raises at
\* once and the bare except breaks the loop. Leaving the loop closes nothing.
ListenCheck(i) ==
    /\ lpc[i] = "check"
    /\ IF running /\ sockState[sock] # "closed"
       THEN /\ lpc' = [lpc EXCEPT ![i] = "recv"]
            /\ lsock' = [lsock EXCEPT ![i] = sock]
       ELSE /\ lpc' = [lpc EXCEPT ![i] = "done"]
            /\ UNCHANGED lsock
    /\ UNCHANGED <<running, sock, nStarts, bpc, sockState, net, nSent,
                   devices, clock, nRx, lastRx, calls, events, nWs>>
    /\ UNCHANGED upVars

\* recvfrom(1024): the bytes of the datagram that fit the buffer
Truncate(data) == SubSeq(data, 1, IF Len(data) < RECV_BUF THEN Len(data) ELSE RECV_BUF)

\* recvfrom returns datagram m; local_ip = self._get_local_ip(); the message
\* is handled unless it comes from local_ip; then the loop goes on.
ListenRecv(i, m, local_ip) ==
    /\ lpc[i] = "recv"
    /\ sockState[lsock[i]] = "bound"
    /\ m \in net
    /\ m.dport = DISCOVERY_PORT
    /\ net' = net \ {m}
    /\ nRx' = nRx + 1
    /\ lastRx' = <<[src |-> m.src, data |-> m.data, local_ip |-> local_ip, by |-> i]>>
    /\ LET found == Listened([m EXCEPT !.data = Truncate(m.data)], local_ip, LocalId, clock) IN
         IF found = <<>>
         THEN UNCHANGED <<devices, clock, calls, events>>
         ELSE /\ clock' = clock + 1
              /\ calls' = Append(calls, found[1])
              /\ devices' = OnDeviceFoundDevices(devices, found[1])
              /\ events' = OnDeviceFoundEvents(devices, events, found[1])
    /\ lpc' = [lpc EXCEPT ![i] = "check"]
    /\ UNCHANGED <<running, sock, nStarts, bpc, sockState, lsock, nSent, nWs>>
    /\ UNCHANGED upVars

\* except socket.timeout: continue (the 5 s receive timeout elapsed)
ListenTimeout(i) ==
    /\ lpc[i] = "recv"
    /\ lpc' = [lpc EXCEPT ![i] = "check"]
    /\ UNCHANGED <<running, sock, nStarts, bpc, sockState, lsock, net, nSent,
                   devices, clock, nRx, lastRx, calls, events, nWs>>
    /\ UNCHANGED upVars

\* except: break. recvfrom raises on a socket that stop() closed under it, and,
\* on some platforms, on a socket that was never bound.
ListenSockError(i) ==
    /\ lpc[i] = "recv"
    /\ sockState[lsock[i]] \in {"closed", "open"}
    /\ lpc' = [lpc EXCEPT ![i] = "done"]
    /\ UNCHANGED <<running, sock, nStarts, bpc, sockState, lsock, net, nSent,
                   devices, clock, nRx, lastRx, calls, events, nWs>>
    /\ UNCHANGED upVars

\* except: break, taken while the service runs on its bound socket: recvfrom
\* raises an OSError that is no timeout (the network stack reports a failure).
ListenRecvError(i) ==
    /\ lpc[i] = "recv"
    /\ sockState[lsock[i]] = "bound"
    /\ lpc' = [lpc EXCEPT ![i] = "done"]
    /\ UNCHANGED <<running, sock, nStarts, bpc, sockState, lsock, net, nSent,
                   devices, clock, nRx, lastRx, calls, events, nWs>>
    /\ UNCHANGED upVars

\* self.sock = socket.socket(...) in a later listener thread drops the
\* reference to the socket stored before. A socket object that self.sock no
\* longer names, and on which no recvfrom is running, is unreferenced: the
\* interpreter closes it when it finalizes the object, at once under
\* reference counting, later or never under another collector.
Finalize(k) ==
    /\ k # sock
    /\ sockState[k] \in {"open", "bound"}
    /\ \A i \in Threads : ~(lpc[i] = "recv" /\ lsock[i] = k)
    /\ sockState' = [sockState EXCEPT ![k] = "closed"]
    /\ UNCHANGED <<running, sock, nStarts, lpc, bpc, lsock, net, nSent, devices,
                   clock, nRx, lastRx, calls, events, nWs>>
    /\ UNCHANGED upVars

\* _broadcast_loop: while self.running
BroadcastCheck(j) ==
    /\ bpc[j] = "check"
    /\ bpc' = [bpc EXCEPT ![j] = IF running THEN "send" ELSE "done"]
    /\ UNCHANGED <<running, sock, nStarts, lpc, sockState, lsock, net, nSent,
                   devices, clock, nRx, lastRx, calls, events, nWs>>
    /\ UNCHANGED upVars

\* a fresh socket, sendto the broadcast address, close
BroadcastSend(j) ==
    /\ bpc[j] = "send"
    /\ net' = net \cup {BroadcastDatagram(HostIp, LocalId, LocalName, HTTP_PORT)}
    /\ bpc' = [bpc EXCEPT ![j] = "wait"]
    /\ UNCHANGED <<running, sock, nStarts, lpc, sockState, lsock, nSent,
                   devices, clock, nRx, lastRx, calls, events, nWs>>
    /\ UNCHANGED upVars

\* socket.socket() or sendto raises (no route to the broadcast address, no
\* descriptor left): control goes to the except clause, nothing is sent.
BroadcastSendError(j) ==
    /\ bpc[j] = "send"
    /\ bpc' = [bpc EXCEPT ![j] = "except"]
    /\ UNCHANGED <<running, sock, nStarts, lpc, sockState, lsock, net, nSent,
                   devices, clock, nRx, lastRx, calls, events, nWs>>
    /\ UNCHANGED upVars

\* An except clause that lets the error end the thread.
BroadcastExceptEnds(j) ==
    /\ bpc[j] = "except"
    /\ bpc' = [bpc EXCEPT ![j] = "done"]
    /\ UNCHANGED <<running, sock, nStarts, lpc, sockState, lsock, net, nSent,
                   devices, clock, nRx, lastRx, calls, events, nWs>>
    /\ UNCHANGED upVars

\* except: pass, then on to the wait
BroadcastExcept(j) ==
    /\ bpc[j] = "except"
    /\ bpc' = [bpc EXCEPT ![j] = "wait"]
    /\ UNCHANGED <<running, sock, nStarts, lpc, sockState, lsock, net, nSent,
                   devices, clock, nRx, lastRx, calls, events, nWs>>
    /\ UNCHANGED upVars

\* A loop that sends again after the wait without testing self.running.
BroadcastWakeSends(j) ==
    /\ bpc[j] = "wait"
    /\ bpc' = [bpc EXCEPT ![j] = "send"]
    /\ UNCHANGED <<running, sock, nStarts, lpc, sockState, lsock, net, nSent,
                   devices, clock, nRx, lastRx, calls, events, nWs>>
    /\ UNCHANGED upVars

\* threading.Event().wait(5): the event is made here and set by nobody, so
\* the wait ends when its 5 s have elapsed and in no other way.
BroadcastWake(j) ==
    /\ bpc[j] = "wait"
    /\ bpc' = [bpc EXCEPT ![j] = "check"]
    /\ UNCHANGED <<running, sock, nStarts, lpc, sockState, lsock, net, nSent,
                   devices, clock, nRx, lastRx, calls, events, nWs>>
    /\ UNCHANGED upVars

(***************************************************************************)
(* The rest of the broadcast domain, the WebSocket handler and the GUI.    *)
(***************************************************************************)
\* A peer on another host runs the same _broadcast_loop under its own identity.
PeerBroadcast ==
    /\ net' = net \cup {BroadcastDatagram(PeerIp, PeerId, PeerName, HTTP_PORT)}
    /\ UNCHANGED <<running, sock, nStarts, lpc, bpc, sockState, lsock, nSent,
                   devices, clock, nRx, lastRx, calls, events, nWs>>
    /\ UNCHANGED upVars

Dgram(src, data) == [src |-> src, dport |-> DISCOVERY_PORT, data |-> data]

Bar == <<"|">>

\* Announcements as any sender may address them to the discovery port.
GoodDatagrams ==
    { Dgram(PeerIp, AnnounceMsg(PeerId, PeerName, HTTP_PORT)),
      Dgram(OtherIp, AnnounceMsg(PeerId, LocalName, 9090)),
      Dgram(OtherIp, AnnounceMsg(OtherId, PeerName, HTTP_PORT)),
      Dgram(HostIp, AnnounceMsg(PeerId, PeerName, HTTP_PORT)),
      Dgram(Loopback, AnnounceMsg(OtherId, PeerName, HTTP_PORT)),
      Dgram(PeerIp, MESSAGE_ANNOUNCE \o Bar \o PeerId \o Bar \o PeerName \o Bar \o <<" ", "8", "0">>) }

\* Announcements carrying this device's own id.
SelfDatagrams ==
    { Dgram(PeerIp, AnnounceMsg(LocalId, LocalName, HTTP_PORT)),
      Dgram(HostIp, AnnounceMsg(LocalId, LocalName, HTTP_PORT)) }

\* Datagrams that are no announcement of the wire format.
BadDatagrams ==
    { Dgram(PeerIp, MESSAGE_ANNOUNCE \o Bar \o PeerId \o Bar \o <<BadByte>> \o Bar \o StrOf(HTTP_PORT)),
      Dgram(PeerIp, MESSAGE_ANNOUNCE \o <<";">> \o PeerId \o <<";">> \o PeerName \o <<";">> \o StrOf(HTTP_PORT)),
      Dgram(PeerIp, MESSAGE_ANNOUNCE \o Bar \o PeerId \o Bar \o PeerName),
      Dgram(PeerIp, MESSAGE_ANNOUNCE \o <<"X">> \o Bar \o PeerId \o Bar \o PeerName \o Bar \o StrOf(HTTP_PORT)),
      Dgram(PeerIp, <<"H", "I">> \o Bar \o PeerId \o Bar \o PeerName \o Bar \o StrOf(HTTP_PORT)),
      Dgram(PeerIp, MESSAGE_ANNOUNCE \o Bar \o PeerId \o Bar \o PeerName \o Bar \o <<"8", "o">>),
      Dgram(PeerIp, AnnounceMsg(PeerId, <<"n", "|", "m">>, HTTP_PORT)),
      Dgram(PeerIp, AnnounceMsg(PeerId, PeerName, HTTP_PORT) \o Bar \o <<"z">>) }

AllDatagrams == GoodDatagrams \cup SelfDatagrams \cup BadDatagrams

\* Some sender puts datagram d on the discovery port of this host. The
\* listener takes datagrams one at a time, in the order they arrive: the next
\* one to arrive is chosen when the one before has been taken.
EnvSend(d) ==
    /\ nSent < MaxDatagrams
    /\ \A m \in net : m.dport # DISCOVERY_PORT
    /\ net' = net \cup {d}
    /\ nSent' = nSent + 1
    /\ UNCHANGED <<running, sock, nStarts, lpc, bpc, sockState, lsock,
                   devices, clock, nRx, lastRx, calls, events, nWs>>
    /\ UNCHANGED upVars

\* dict.get(key, default)
Get(d, k, default) == IF k \in DOMAIN d THEN d[k] ELSE default

Unknown == <<"U", "n", "k", "n", "o", "w", "n">>

\* JSON objects a WebSocket client may send with type 'announce'.
WsMessages ==
    { [deviceId |-> PeerId, deviceName |-> PeerName, address |-> OtherIp,
       port |-> WS_PORT, httpPort |-> 9090],
      [deviceId |-> LocalId, deviceName |-> LocalName, address |-> HostIp],
      [deviceName |-> PeerName] }

\* _handle_websocket_message, msg_type == 'announce'
WsAnnounce(data) ==
    /\ nWs < MaxWs
    /\ nStarts > 0
    /\ LET device == Device(Get(data, "deviceName", Unknown), Get(data, "address", ""),
                            Get(data, "port", 0), Get(data, "httpPort", HTTP_PORT),
                            Get(data, "deviceId", <<>>), clock)
       IN /\ devices' = DictSet(devices, DeviceKey(device), device)
          /\ events' = Append(events, DeviceFoundEvent(device))
    /\ clock' = clock + 1
    /\ nWs' = nWs + 1
    /\ UNCHANGED <<running, sock, nStarts, lpc, bpc, sockState, lsock, net,
                   nSent, nRx, lastRx, calls>>
    /\ UNCHANGED upVars

\* PyDropGUI._refresh_devices: self.server.devices.clear()
Refresh ==
    /\ devices # EmptyDict
    /\ devices' = EmptyDict
    /\ UNCHANGED <<running, sock, nStarts, lpc, bpc, sockState, lsock, net,
                   nSent, clock, nRx, lastRx, calls, events, nWs>>
    /\ UNCHANGED upVars

(***************************************************************************)
(* Paths. A path is the sequence of its components from the root; a        *)
(* component is <<prefix, name>>: the text prefix_name, or name alone when *)
(* the prefix is empty. A client filename is the sequence of the names     *)
(* its '/' separators delimit.                                             *)
(***************************************************************************)
Comp(name) == <<"", name>>
DotDot == Comp("..")

Root == <<>>
\* Path(__file__).parent
AppDir == <<Comp("app")>>
\* save_dir = Path(__file__).parent / 'received'
SaveDir == Append(AppDir, Comp("received"))

Parent(p) == IF p = Root THEN Root ELSE SubSeq(p, 1, Len(p) - 1)

\* f"{file_id}_{name}" as path components: the prefix joins the first name.
PrefixedName(file_id, name) ==
    [k \in 1..Len(name) |-> IF k = 1 THEN <<file_id, name[1]>> ELSE Comp(name[k])]

\* POSIX: every component before the last is walked in the file system, so it
\* must be '..' or an existing directory. <<>> stands for the OSError.
RECURSIVE WalkPosix(_, _, _)
WalkPosix(cur, comps, ds) ==
    IF Len(comps) = 1
    THEN IF comps[1] = DotDot \/ Append(cur, comps[1]) \in ds
         THEN <<>> ELSE <<Append(cur, comps[1])>>
    ELSE IF Head(comps) = DotDot THEN WalkPosix(Parent(cur), Tail(comps), ds)
    ELSE IF Append(cur, Head(comps)) \in ds
         THEN WalkPosix(Append(cur, Head(comps)), Tail(comps), ds)
    ELSE <<>>

\* Windows: '..' components are cancelled in the text of the path before the
\* file system is asked.
RECURSIVE Normalize(_, _)
Normalize(cur, comps) ==
    IF comps = <<>> THEN cur
    ELSE IF Head(comps) = DotDot THEN Normalize(Parent(cur), Tail(comps))
    ELSE Normalize(Append(cur, Head(comps)), Tail(comps))

WalkNt(cur, comps, ds) ==
    LET target == Normalize(cur, comps) IN
    IF Last(comps) = DotDot \/ target \in ds \/ Parent(target) \notin ds
    THEN <<>> ELSE <<target>>

\* open(save_dir / name, 'wb'): the file opened, as a sequence of at most one path
OpenTarget(isPosix, dir, comps, ds) ==
    IF isPosix THEN WalkPosix(dir, comps, ds) ELSE WalkNt(dir, comps, ds)

\* f.write(chunk) at offset pos of a file holding content (a hole reads as zeros)
RECURSIVE Zeros(_)
Zeros(n) == IF n <= 0 THEN <<>> ELSE Append(Zeros(n - 1), "0")

WriteAt(content, pos, chunk) ==
    LET padded == IF Len(content) < pos THEN content \o Zeros(pos - Len(content)) ELSE content
    IN SubSeq(padded, 1, pos) \o chunk \o SubSeq(padded, pos + Len(chunk) + 1, Len(padded))

(***************************************************************************)
(* PyDropServer.handle_upload. The handler runs on the event loop: it      *)
(* yields to other requests at each await and nowhere else.                *)
(***************************************************************************)
Reqs == 1..MaxUploads

\* uuid4().hex[:8]: any value may be drawn, also one drawn before
FileIds == {"id1", "id2"}

\* field.filename of a part that is no file field: None
NoFilename == <<>>

Filenames ==
    { <<"a.txt">>, <<"..", "..", "evil.txt">>, <<"..", "..", "..", "evil.txt">>,
      <<"sub", "a.txt">>, NoFilename }

\* {filename} in an f-string: None is formatted as the text None
FormatFilename(filename) == IF filename = NoFilename THEN <<"None">> ELSE filename

Bodies == { <<>>, <<"x">>, <<"y", "y", "y">> }

IdleReq ==
    [pc |-> "idle", hasPart |-> FALSE, filename |-> <<>>, body |-> <<>>,
     file_id |-> "", path |-> <<>>, pos |-> 0, size |-> 0, status |-> 0]

\* The request whose body has no part: field is None, Response 400.
UploadNoFile(r) ==
    /\ reqs[r].pc = "idle"
    /\ \A q \in 1..(r - 1) : reqs[q].pc # "idle"
    /\ reqs' = [reqs EXCEPT ![r] = [IdleReq EXCEPT !.pc = "done", !.status = 400]]
    /\ UNCHANGED <<sent, rt, snd, posix, dirs, files, files0, received_files, fileEvents>>
    /\ UNCHANGED discVars

\* A request with a first part, whose filename is None when the part is no
\* file field (any part object is true): from reader.next() to the first
\* read_chunk. mkdir(exist_ok=True), then open(filepath, 'wb'), which creates
\* the file or truncates the one that is there; when open raises, the handler
\* ends and aiohttp answers 500.
BeginUpload(r, filename, body, file_id) ==
    /\ reqs[r].pc = "idle"
    /\ \A q \in 1..(r - 1) : reqs[q].pc # "idle"
    /\ dirs' = dirs \cup {SaveDir}
    /\ LET target == OpenTarget(posix, SaveDir, PrefixedName(file_id, FormatFilename(filename)), dirs')
           req == [IdleReq EXCEPT !.hasPart = TRUE, !.filename = filename,
                                  !.body = body, !.file_id = file_id]
       IN IF target = <<>>
          THEN /\ reqs' = [reqs EXCEPT ![r] = [req EXCEPT !.pc = "done", !.status = 500]]
               /\ UNCHANGED files
          ELSE /\ reqs' = [reqs EXCEPT ![r] = [req EXCEPT !.pc = "reading", !.path = target[1]]]
               /\ files' = DictSet(files, target[1], <<>>)

\* handle_upload called for the request of some other client
UploadBegin(r, filename, body, file_id) ==
    /\ BeginUpload(r, filename, body, file_id)
    /\ UNCHANGED <<sent, rt, snd, posix, files0, received_files, fileEvents>>
    /\ UNCHANGED discVars

\* chunk = await field.read_chunk(8192), not empty: f.write(chunk); size += len(chunk)
UploadChunk(r) ==
    /\ reqs[r].pc = "reading"
    /\ reqs[r].pos < Len(reqs[r].body)
    /\ LET rest == Len(reqs[r].body) - reqs[r].pos
           n == IF rest < ChunkBytes THEN rest ELSE ChunkBytes
           chunk == SubSeq(reqs[r].body, reqs[r].pos + 1, reqs[r].pos + n)
       IN /\ files' = [files EXCEPT ![reqs[r].path] = WriteAt(@, reqs[r].pos, chunk)]
          /\ reqs' = [reqs EXCEPT ![r].pos = @ + n, ![r].size = @ + Len(chunk)]
    /\ UNCHANGED <<sent, rt, snd, posix, dirs, files0, received_files, fileEvents>>
    /\ UNCHANGED discVars

\* The record stored in received_files (its 'time' is left out).
FileRecord(filename, size, path) == [name |-> filename, size |-> size, path |-> path]

\* chunk empty: the file is closed, the record stored, the GUI told, 200 returned.
UploadFinish(r) ==
    /\ reqs[r].pc = "reading"
    /\ reqs[r].pos = Len(reqs[r].body)
    /\ received_files' = DictSet(received_files, reqs[r].file_id,
                                 FileRecord(reqs[r].filename, reqs[r].size, reqs[r].path))
    /\ fileEvents' = Append(fileEvents, [type |-> "file_received", name |-> reqs[r].filename,
                                         size |-> reqs[r].size, id |-> reqs[r].file_id])
    /\ reqs' = [reqs EXCEPT ![r].pc = "done", ![r].status = 200]
    /\ UNCHANGED <<sent, rt, snd, posix, dirs, files, files0>>
    /\ UNCHANGED discVars

\* mkdir or open raises for a reason of its own (no permission, a file named
\* received, a full disk): mkdirDone tells whether mkdir had returned. The
\* handler ends there and aiohttp answers 500.
UploadSetupError(r, filename, body, file_id, mkdirDone) ==
    /\ reqs[r].pc = "idle"
    /\ \A q \in 1..(r - 1) : reqs[q].pc # "idle"
    /\ dirs' = IF mkdirDone THEN dirs \cup {SaveDir} ELSE dirs
    /\ reqs' = [reqs EXCEPT ![r] = [IdleReq EXCEPT !.hasPart = TRUE, !.filename = filename,
                                                   !.body = body, !.file_id = file_id,
                                                   !.pc = "done", !.status = 500]]
    /\ UNCHANGED <<sent, rt, snd, posix, files, files0, received_files, fileEvents>>
    /\ UNCHANGED discVars

\* An upload error handler that stores the record of what it has written.
UploadIoErrorRecords(r) ==
    /\ reqs[r].pc = "reading"
    /\ received_files' = DictSet(received_files, reqs[r].file_id,
                                 FileRecord(reqs[r].filename, reqs[r].size, reqs[r].path))
    /\ reqs' = [reqs EXCEPT ![r].pc = "done", ![r].status = 500]
    /\ UNCHANGED <<sent, rt, snd, posix, dirs, files, files0, fileEvents>>
    /\ UNCHANGED discVars

\* read_chunk or f.write raises (the client went away, the disk is full): the
\* with block closes the file, the exception leaves the handler before the
\* record is stored, and aiohttp answers 500. What was written stays on disk.
UploadIoError(r) ==
    /\ reqs[r].pc = "reading"
    /\ reqs' = [reqs EXCEPT ![r].pc = "done", ![r].status = 500]
    /\ UNCHANGED <<sent, rt, snd, posix, dirs, files, files0, received_files, fileEvents>>
    /\ UNCHANGED discVars

(***************************************************************************)
(* PyDropGUI._upload_file on a sending device, and what it may reach. The  *)
(* receiver is the upload handler above, listening on PeerIp. A request    *)
(* body is a sequence of tokens: single bytes, and the texts the sender    *)
(* puts around the file as wholes.                                         *)
(***************************************************************************)
CR == "\r"
LF == "\n"

\* '----WebKitFormBoundary' + uuid.uuid4().hex: 32 random hex digits, which the
\* file, fixed before they are drawn, does not contain.
Boundary == "----WebKitFormBoundary0123"

\* 'Content-Disposition: form-data; name="file"; filename="{filename}"': the
\* text before the opening quote, and the quote
DispositionOpen == "Content-Disposition: form-data; name=\"file\"; filename="
Quote == "\""
ContentTypeOpen == "Content-Type: "

\* mimetypes.guess_type(file_path)[0] or 'application/octet-stream'
MimeType == "application/octet-stream"

\* app.router.add_post('/api/upload', self.handle_upload)
UPLOAD_ROUTE == "/api/upload"

\* The path of the URL _upload_file posts to.
UploadUrlPath == "/api/upload"

\* os.path.basename(file_path)
Basename(path) == Last(path)

\* A multipart body whose closing delimiter follows the file without a CRLF.
MultipartBodyNoCrlf(boundary, filename, mime_type, file_data) ==
    <<"--", boundary, CR, LF>>
        \o <<DispositionOpen, Quote, filename, Quote, CR, LF>>
        \o <<ContentTypeOpen, mime_type, CR, LF, CR, LF>>
        \o file_data
        \o <<"--", boundary, "--", CR, LF>>

\* body = f'--{boundary}\r\n' + the two header lines + b'\r\n' + file_data
\*        + f'\r\n--{boundary}--\r\n'
MultipartBody(boundary, filename, mime_type, file_data) ==
    <<"--", boundary, CR, LF>>
        \o <<DispositionOpen, Quote, filename, Quote, CR, LF>>
        \o <<ContentTypeOpen, mime_type, CR, LF, CR, LF>>
        \o file_data
        \o <<CR, LF, "--", boundary, "--", CR, LF>>

\* The first position from `from` on at which pat occurs in body; 0 if none.
Find(body, pat, from) ==
    LET hits == {i \in from..(Len(body) - Len(pat) + 1) :
                    SubSeq(body, i, i + Len(pat) - 1) = pat}
    IN IF hits = {} THEN 0 ELSE CHOOSE i \in hits : \A k \in hits : i <= k

\* request.multipart() and reader.next(): the first part of the body, as a
\* sequence of at most one [filename, data]. The part begins after the first
\* delimiter line, its headers end at the first empty line, and its data ends
\* before the CRLF of the next delimiter.
FirstPart(body, boundary) ==
    LET start == Find(body, <<"--", boundary, CR, LF>>, 1)
        blank == IF start = 0 THEN 0 ELSE Find(body, <<CR, LF, CR, LF>>, start + 2)
        close == IF blank = 0 THEN 0 ELSE Find(body, <<CR, LF, "--", boundary>>, blank + 4)
        name  == IF blank = 0 THEN 0 ELSE Find(SubSeq(body, 1, blank), <<DispositionOpen, Quote>>, start)
    IN IF blank = 0 THEN <<>>
       ELSE <<[filename |-> IF name = 0 THEN NoFilename ELSE <<body[name + 2]>>,
               data |-> SubSeq(body, blank + 4, IF close = 0 THEN Len(body) ELSE close - 1)]>>

\* A 2xx status
Success(code) == 200 <= code /\ code < 300

\* urllib.request.urlopen(req) returns (TRUE) or raises (FALSE), given the
\* statuses the server answers with, one per request urlopen makes: a 2xx
\* answer is returned; 301, 302 and 303 are followed with a GET that has no
\* body, 307 and 308 are followed for a GET only; all else raises HTTPError.
RECURSIVE UrlopenReturns(_, _)
UrlopenReturns(chain, method) ==
    IF chain = <<>> THEN FALSE
    ELSE IF Success(Head(chain)) THEN TRUE
    ELSE IF Head(chain) \in {301, 302, 303} \/ (Head(chain) \in {307, 308} /\ method = "GET")
         THEN UrlopenReturns(Tail(chain), "GET")
    ELSE FALSE

\* What answers a connection to (address, port): the receiver listens on every
\* address of its host at its http_port (TCPSite('0.0.0.0', self.http_port)).
DeadIp == "10.0.0.9"

Listener(address, port) ==
    IF address = PeerIp THEN (IF port = HTTP_PORT THEN "receiver" ELSE "closed")
    ELSE IF address = OtherIp THEN "foreign"
    ELSE "silent"

\* Entries the sender's registry may hold: the receiver; the receiver under a
\* port nothing listens on; some other HTTP server; a host that is gone.
SendDevices ==
    { Device(PeerName, PeerIp, WS_PORT, HTTP_PORT, PeerId, 0),
      Device(PeerName, PeerIp, WS_PORT, 9090, PeerId, 0),
      Device(PeerName, OtherIp, WS_PORT, HTTP_PORT, OtherId, 0),
      Device(Unknown, DeadIp, 0, HTTP_PORT, OtherId, 0) }

SendBodies == { <<>>, <<"x">>, <<CR, LF>>, <<"y", CR, LF, "--">> }

\* The files the user may pick: one readable, one that open() fails on.
SendFiles ==
    { [path |-> <<"home", "a.txt">>, readable |-> TRUE, data |-> d] : d \in SendBodies }
        \cup { [path |-> <<"home", "gone.txt">>, readable |-> FALSE, data |-> <<>>] }

\* Status sequences a server that is no PyDrop receiver may answer with.
AnswerChains ==
    { <<200>>, <<204>>, <<404>>, <<500>>, <<302, 200>>, <<302, 404>>, <<307, 200>> }

IdleSnd ==
    [pc |-> "idle", n |-> 0, file |-> <<>>, device |-> <<>>, wire |-> <<>>,
     req |-> 0, hops |-> <<>>, result |-> <<>>]

\* _upload_file returns: the value returned and the statuses urlopen saw.
Returned(value, hops) ==
    [snd EXCEPT !.pc = "idle", !.hops = hops, !.result = <<value>>]

\* _upload_file(device, file_path) up to urlopen: the file is read whole and
\* the request built; when open() raises, the except clause returns False.
SendRead(file, device) ==
    /\ snd.pc = "idle"
    /\ snd.n < MaxSends
    /\ snd' = IF file.readable
              THEN [snd EXCEPT !.pc = "posting", !.n = @ + 1, !.file = <<file>>,
                               !.device = <<device>>, !.req = 0, !.hops = <<>>,
                               !.result = <<>>,
                               !.wire = <<[address |-> device.address,
                                           port |-> device.http_port,
                                           path |-> UploadUrlPath,
                                           boundary |-> Boundary,
                                           body |-> MultipartBody(Boundary, Basename(file.path),
                                                                  MimeType, file.data)]>>]
              ELSE [snd EXCEPT !.pc = "idle", !.n = @ + 1, !.file = <<file>>,
                               !.device = <<device>>, !.req = 0, !.hops = <<>>,
                               !.wire = <<>>, !.result = <<FALSE>>]
    /\ UNCHANGED <<sent, rt, posix, dirs, files, files0, reqs, received_files, fileEvents>>
    /\ UNCHANGED discVars

\* urlopen raises URLError: connection refused.
SendRefused ==
    /\ snd.pc = "posting"
    /\ Listener(snd.wire[1].address, snd.wire[1].port) = "closed"
    /\ snd' = Returned(FALSE, <<>>)
    /\ UNCHANGED <<sent, rt, posix, dirs, files, files0, reqs, received_files, fileEvents>>
    /\ UNCHANGED discVars

\* urlopen raises after timeout=60: nothing answers.
SendTimeout ==
    /\ snd.pc = "posting"
    /\ Listener(snd.wire[1].address, snd.wire[1].port) = "silent"
    /\ snd' = Returned(FALSE, <<>>)
    /\ UNCHANGED <<sent, rt, posix, dirs, files, files0, reqs, received_files, fileEvents>>
    /\ UNCHANGED discVars

\* A server that is no PyDrop receiver answers; urlopen returns or raises.
ForeignAnswer(chain) ==
    /\ snd.pc = "posting"
    /\ Listener(snd.wire[1].address, snd.wire[1].port) = "foreign"
    /\ snd' = Returned(UrlopenReturns(chain, "POST"), chain)
    /\ UNCHANGED <<sent, rt, posix, dirs, files, files0, reqs, received_files, fileEvents>>
    /\ UNCHANGED discVars

\* The receiver takes the sender's request: the router answers 404 for a path
\* it has no route for, else handle_upload begins on the first part of the
\* body (400 when there is none).
ServeSender(r, file_id) ==
    /\ snd.pc = "posting"
    /\ Listener(snd.wire[1].address, snd.wire[1].port) = "receiver"
    /\ LET part == FirstPart(snd.wire[1].body, snd.wire[1].boundary) IN
         IF snd.wire[1].path = UPLOAD_ROUTE /\ part # <<>>
         THEN BeginUpload(r, part[1].filename, part[1].data, file_id)
         ELSE /\ reqs[r].pc = "idle"
              /\ \A q \in 1..(r - 1) : reqs[q].pc # "idle"
              /\ reqs' = [reqs EXCEPT ![r] =
                            [IdleReq EXCEPT !.pc = "done",
                                            !.status = IF snd.wire[1].path = UPLOAD_ROUTE
                                                       THEN 400 ELSE 404]]
              /\ UNCHANGED <<dirs, files>>
    /\ snd' = [snd EXCEPT !.pc = "waiting", !.req = r]
    /\ UNCHANGED <<sent, rt, posix, files0, received_files, fileEvents>>
    /\ UNCHANGED discVars

\* The receiver's answer arrives: urlopen returns or raises, _upload_file
\* returns True or False.
SendResponse ==
    /\ snd.pc = "waiting"
    /\ reqs[snd.req].pc = "done"
    /\ snd' = Returned(UrlopenReturns(<<reqs[snd.req].status>>, "POST"),
                       <<reqs[snd.req].status>>)
    /\ UNCHANGED <<sent, rt, posix, dirs, files, files0, reqs, received_files, fileEvents>>
    /\ UNCHANGED discVars

(***************************************************************************)
(* PyDropServer.send_file_to_device.                                       *)
(***************************************************************************)
IdleSent ==
    [n |-> 0, hasMultipart |-> <<>>, sent_files |-> EmptyDict, events |-> <<>>,
     requests |-> <<>>, last |-> <<>>]

\* The entry of sent_files and the payload of the file_sent notification.
SentRecord(device, file) ==
    [name |-> Basename(file.path), size |-> Len(file.data), to |-> device.name]

\* send_file_to_device(device, file_path). open() raises on a file that cannot
\* be read. The Request object is built and dropped: no urlopen, and no other
\* call that sends, is made, so the requests issued stay as they were.
\* `import multipart` raises where no such module is installed, which is a
\* property of the installation: canImport is the same in every call. When
\* nothing raised, the record is stored, the notification emitted (the GUI
\* has set the callback) and True returned; otherwise False.
SendFileToDevice(device, file, file_id, canImport) ==
    /\ sent.n < MaxSends
    /\ sent.hasMultipart \in {<<>>, <<canImport>>}
    /\ LET ok == file.readable /\ canImport IN
       sent' = [sent EXCEPT
                  !.n = @ + 1,
                  !.hasMultipart = <<canImport>>,
                  !.sent_files = IF ok THEN DictSet(@, file_id, SentRecord(device, file))
                                 ELSE @,
                  !.events = IF ok THEN Append(@, SentRecord(device, file)) ELSE @,
                  !.last = <<[device |-> device, file |-> file, result |-> ok]>>]
    /\ UNCHANGED <<rt, snd, posix, dirs, files, files0, reqs, received_files, fileEvents>>
    /\ UNCHANGED discVars

(***************************************************************************)
(* An announcement from the broadcaster of one device to the handler of    *)
(* another.                                                                *)
(***************************************************************************)
RtIds == {LocalId, PeerId, OtherId}

\* Display names: plain ones, and ones that hold the delimiter.
RtNames ==
    { <<"n">>, <<"n", "m">>, <<"n", " ">>, <<"n", "|", "m">>, <<"n", "|", "7">>, <<"|">> }

RtPorts == {1, 80, HTTP_PORT, 9090}

\* _broadcast_loop of a device (device_id, device_name, http_port) at address
\* addr builds the message; _handle_message of a device whose id is peer_id
\* is called with its bytes. found is what it passes to on_device_found.
RoundTrip(device_id, device_name, http_port, addr, peer_id) ==
    /\ device_id # peer_id
    /\ rt' = <<[device_id |-> device_id, device_name |-> device_name,
                http_port |-> http_port, peer_id |-> peer_id,
                found |-> HandleMessage(
                            BroadcastDatagram(addr, device_id, device_name, http_port).data,
                            addr, peer_id, clock)]>>
    /\ UNCHANGED <<sent, snd, posix, dirs, files, files0, reqs, received_files, fileEvents>>
    /\ UNCHANGED discVars

(***************************************************************************)
(* Specifications.                                                         *)
(***************************************************************************)
vars == <<discVars, upVars>>

\* UDPDiscovery.__init__ and PyDropServer.__init__
Init ==
    /\ running = FALSE
    /\ sock = 0
    /\ nStarts = 0
    /\ lpc = [i \in Threads |-> "idle"]
    /\ bpc = [i \in Threads |-> "idle"]
    /\ sockState = [i \in Threads |-> "none"]
    /\ lsock = [i \in Threads |-> 0]
    /\ net = {}
    /\ nSent = 0
    /\ devices = EmptyDict
    /\ clock = 0
    /\ nRx = 0
    /\ lastRx = <<>>
    /\ calls = <<>>
    /\ events = <<>>
    /\ nWs = 0
    /\ posix \in BOOLEAN
    /\ \/ /\ dirs = {Root, AppDir}
          /\ files = EmptyDict
       \/ /\ dirs = {Root, AppDir, SaveDir}
          /\ files = DictSet(EmptyDict, Append(SaveDir, <<"id1", "a.txt">>), <<"o", "l", "d">>)
    /\ files0 = files
    /\ reqs = [r \in Reqs |-> IdleReq]
    /\ received_files = EmptyDict
    /\ fileEvents = <<>>
    /\ snd = IdleSnd
    /\ sent = IdleSent
    /\ rt = <<>>

\* The discovery scenarios use no file: one file system stands for all.
InitNoFiles == Init /\ posix /\ files = EmptyDict

\* The service started once and left running.
StartOnce == nStarts = 0 /\ Start

\* The listener and what it makes of every kind of datagram.
ListenNext ==
    \/ StartOnce
    \/ \E i \in Threads : ListenCreate(i)
    \/ \E i \in Threads : ListenBind(i)
    \/ \E i \in Threads : ListenCheck(i)
    \/ \E i \in Threads, m \in AllDatagrams, ip \in LocalIps : ListenRecv(i, m, ip)
    \/ \E i \in Threads : ListenTimeout(i)
    \/ \E i \in Threads : ListenRecvError(i)
    \/ \E j \in Threads : BroadcastCheck(j)
    \/ \E j \in Threads : BroadcastSend(j)
    \/ \E j \in Threads : BroadcastWake(j)
    \/ \E d \in AllDatagrams : EnvSend(d)

SpecListen == InitNoFiles /\ [][ListenNext]_vars

\* Announcements of two peers, one of them seen at two addresses, and an echo
\* of the own announcement.
RegistryDatagrams ==
    { Dgram(PeerIp, AnnounceMsg(PeerId, PeerName, HTTP_PORT)),
      Dgram(OtherIp, AnnounceMsg(PeerId, LocalName, 9090)),
      Dgram(OtherIp, AnnounceMsg(OtherId, PeerName, HTTP_PORT)),
      Dgram(PeerIp, AnnounceMsg(LocalId, LocalName, HTTP_PORT)) }

\* The registry and all that writes it.
RegistryNext ==
    \/ StartOnce
    \/ \E i \in Threads : ListenCreate(i)
    \/ \E i \in Threads : ListenBind(i)
    \/ \E i \in Threads : ListenCheck(i)
    \/ \E i \in Threads, m \in RegistryDatagrams, ip \in LocalIps : ListenRecv(i, m, ip)
    \/ \E i \in Threads : ListenTimeout(i)
    \/ \E j \in Threads : BroadcastCheck(j)
    \/ \E j \in Threads : BroadcastSend(j)
    \/ \E j \in Threads : BroadcastWake(j)
    \/ \E d \in RegistryDatagrams : EnvSend(d)
    \/ \E data \in WsMessages : WsAnnounce(data)
    \/ Refresh

SpecRegistry == InitNoFiles /\ [][RegistryNext]_vars

\* start() called on a service that does not run: the first start, or a
\* start that follows a stop().
StartStopped == ~running /\ Start

\* The discovery service started, stopped and started again.
RestartNext ==
    \/ StartStopped
    \/ Stop
    \/ \E i \in Threads : ListenCreate(i)
    \/ \E i \in Threads : ListenBind(i)
    \/ \E i \in Threads : ListenCheck(i)
    \/ \E i \in Threads : ListenTimeout(i)
    \/ \E i \in Threads : ListenSockError(i)
    \/ \E j \in Threads : BroadcastCheck(j)
    \/ \E j \in Threads : BroadcastSend(j)
    \/ \E j \in Threads : BroadcastWake(j)
    \/ \E k \in Threads : Finalize(k)

SpecRestart == InitNoFiles /\ [][RestartNext]_vars

\* The server's own send routine, called for any registry entry and file.
ServerSendNext ==
    \E d \in SendDevices, f \in SendFiles, id \in FileIds, c \in BOOLEAN :
        SendFileToDevice(d, f, id, c)

SpecServerSend == Init /\ [][ServerSendNext]_vars

\* Announcements from one device to another, one at a time.
RoundTripNext ==
    \E id \in RtIds, name \in RtNames, port \in RtPorts, peer \in RtIds :
        RoundTrip(id, name, port, HostIp, peer)

SpecRoundTrip == InitNoFiles /\ [][RoundTripNext]_vars

\* The registry of a server that is started and stopped, hears two peers,
\* answers an upload request and sends a file.
PeersDatagrams ==
    { Dgram(PeerIp, AnnounceMsg(PeerId, PeerName, HTTP_PORT)),
      Dgram(OtherIp, AnnounceMsg(OtherId, PeerName, HTTP_PORT)) }

PeersSendDevice == Device(PeerName, PeerIp, WS_PORT, HTTP_PORT, PeerId, 0)

PeersSendFile == [path |-> <<"home", "a.txt">>, readable |-> TRUE, data |-> <<"x">>]

\* A WebSocket announcement of a peer the registry may already hold.
PeersWsMessage ==
    [deviceId |-> PeerId, deviceName |-> PeerName, address |-> OtherIp,
     port |-> WS_PORT, httpPort |-> 9090]

PeersNext ==
    \/ StartOnce
    \/ Stop
    \/ \E i \in Threads : ListenCreate(i)
    \/ \E i \in Threads : ListenBind(i)
    \/ \E i \in Threads : ListenCheck(i)
    \/ \E i \in Threads, m \in PeersDatagrams : ListenRecv(i, m, HostIp)
    \/ \E d \in PeersDatagrams : EnvSend(d)
    \/ WsAnnounce(PeersWsMessage)
    \/ Refresh
    \/ \E r \in Reqs : UploadNoFile(r)
    \/ \E c \in BOOLEAN : SendFileToDevice(PeersSendDevice, PeersSendFile, "id1", c)

SpecPeers == InitNoFiles /\ [][PeersNext]_vars

\* Datagrams of the start/stop scenarios: one announcement of a peer.
LifeDatagrams == {Dgram(PeerIp, AnnounceMsg(PeerId, PeerName, HTTP_PORT))}

LifeNext ==
    \/ Start
    \/ Stop
    \/ \E i \in Threads : ListenCreate(i)
    \/ \E i \in Threads : ListenBind(i)
    \/ \E i \in Threads : ListenCheck(i)
    \/ \E i \in Threads, m \in LifeDatagrams, ip \in LocalIps : ListenRecv(i, m, ip)
    \/ \E i \in Threads : ListenTimeout(i)
    \/ \E i \in Threads : ListenSockError(i)
    \/ \E i \in Threads : ListenRecvError(i)
    \/ \E j \in Threads : BroadcastCheck(j)
    \/ \E j \in Threads : BroadcastSend(j)
    \/ \E j \in Threads : BroadcastWake(j)
    \/ PeerBroadcast
    \/ \E d \in LifeDatagrams : EnvSend(d)
    \/ \E k \in Threads : Finalize(k)

SpecLife == InitNoFiles /\ [][LifeNext]_vars

\* One start of the discovery service, its two threads at every point of
\* their loops, and stop() at any moment.
StopNext ==
    \/ StartOnce
    \/ Stop
    \/ \E i \in Threads : ListenCreate(i)
    \/ \E i \in Threads : ListenBind(i)
    \/ \E i \in Threads : ListenCheck(i)
    \/ \E i \in Threads, m \in LifeDatagrams : ListenRecv(i, m, HostIp)
    \/ \E i \in Threads : ListenTimeout(i)
    \/ \E i \in Threads : ListenSockError(i)
    \/ \E i \in Threads : ListenRecvError(i)
    \/ \E j \in Threads : BroadcastCheck(j)
    \/ \E j \in Threads : BroadcastSend(j)
    \/ \E j \in Threads : BroadcastSendError(j)
    \/ \E j \in Threads : BroadcastExcept(j)
    \/ \E j \in Threads : BroadcastWake(j)
    \/ \E d \in LifeDatagrams : EnvSend(d)

\* Both threads are daemon threads the interpreter keeps scheduling. No call
\* of theirs blocks for ever: recvfrom is under settimeout(5) and returns with
\* a datagram, a timeout or an error; the wait is a timed wait of 5 s.
StopFairness ==
    \A i \in Threads :
        /\ WF_vars(ListenCreate(i))
        /\ WF_vars(ListenBind(i))
        /\ WF_vars(ListenCheck(i))
        /\ WF_vars(ListenTimeout(i) \/ ListenSockError(i) \/ ListenRecvError(i)
                      \/ \E m \in LifeDatagrams : ListenRecv(i, m, HostIp))
        /\ WF_vars(BroadcastCheck(i))
        /\ WF_vars(BroadcastSend(i) \/ BroadcastSendError(i))
        /\ WF_vars(BroadcastExcept(i))
        /\ WF_vars(BroadcastWake(i))

SpecStop == InitNoFiles /\ [][StopNext]_vars /\ StopFairness

\* The broadcaster with its send failing or not, and start and stop around
\* it. The listener threads, which share nothing with it but the running
\* flag, go as far as their receive loop.
BroadcastNext ==
    \/ Start
    \/ Stop
    \/ \E i \in Threads : ListenCreate(i)
    \/ \E i \in Threads : ListenBind(i)
    \/ \E j \in Threads : BroadcastCheck(j)
    \/ \E j \in Threads : BroadcastSend(j)
    \/ \E j \in Threads : BroadcastSendError(j)
    \/ \E j \in Threads : BroadcastExcept(j)
    \/ \E j \in Threads : BroadcastWake(j)

\* A broadcaster thread is scheduled again and again, and its 5 s wait ends.
BroadcastFairness ==
    \A j \in Threads :
        /\ WF_vars(BroadcastCheck(j))
        /\ WF_vars(BroadcastExcept(j))
        /\ WF_vars(BroadcastWake(j))

SpecBroadcast == InitNoFiles /\ [][BroadcastNext]_vars /\ BroadcastFairness

UploadNext ==
    \/ \E r \in Reqs : UploadNoFile(r)
    \/ \E r \in Reqs, fn \in Filenames, b \in Bodies, id \in FileIds : UploadBegin(r, fn, b, id)
    \/ \E r \in Reqs : UploadChunk(r)
    \/ \E r \in Reqs : UploadFinish(r)

SpecUpload == Init /\ [][UploadNext]_vars

\* Uploads of one plain and one nested filename, with the errors mkdir, open,
\* read_chunk and write may raise.
FaultFilenames == { <<"a.txt">>, <<"sub", "a.txt">> }
FaultBodies == { <<"x">>, <<"y", "y", "y">> }

UploadFaultNext ==
    \/ \E r \in Reqs : UploadNoFile(r)
    \/ \E r \in Reqs, fn \in FaultFilenames, b \in FaultBodies, id \in FileIds :
          UploadBegin(r, fn, b, id)
    \/ \E r \in Reqs : UploadChunk(r)
    \/ \E r \in Reqs : UploadFinish(r)
    \/ \E r \in Reqs, fn \in FaultFilenames, b \in FaultBodies, id \in FileIds, mk \in BOOLEAN :
          UploadSetupError(r, fn, b, id, mk)
    \/ \E r \in Reqs : UploadIoError(r)

SpecUploadFaults == Init /\ [][UploadFaultNext]_vars

\* One sender, the receiver serving it, and the other things a registry
\* entry may point at.
SendNext ==
    \/ \E f \in SendFiles, d \in SendDevices : SendRead(f, d)
    \/ SendRefused
    \/ SendTimeout
    \/ \E chain \in AnswerChains : ForeignAnswer(chain)
    \/ \E r \in Reqs, id \in FileIds : ServeSender(r, id)
    \/ \E r \in Reqs : UploadChunk(r)
    \/ \E r \in Reqs : UploadFinish(r)
    \/ SendResponse

SpecSend == Init /\ [][SendNext]_vars

(***************************************************************************)
(* Vocabulary of the claims about datagrams.                               *)
(***************************************************************************)
\* The wire format PYDROP_ANNOUNCE|id|name|port with an integer port.
WellFormed(data) ==
    /\ DecodeOk(data)
    /\ Len(Split(data, "|")) = 4
    /\ Split(data, "|")[1] = MESSAGE_ANNOUNCE
    /\ IsInt(Split(data, "|")[4])

\* Undecodable bytes, fewer than 4 pipe-separated fields (a wrong delimiter
\* gives one field), a first field that is not exactly PYDROP_ANNOUNCE, or a
\* port field that is no integer.
Malformed(data) ==
    \/ ~DecodeOk(data)
    \/ Len(Split(data, "|")) < 4
    \/ Split(data, "|")[1] # MESSAGE_ANNOUNCE
    \/ ~IsInt(Split(data, "|")[4])

\* An announcement whose peer id field is this device's id.
SelfAnnouncement(data) ==
    /\ DecodeOk(data)
    /\ Len(Split(data, "|")) >= 2
    /\ Split(data, "|")[2] = LocalId

\* This step is recvfrom returning a datagram and the listener handling it.
Received == nRx' = nRx + 1

\* This step invoked on_device_found, once, with the Device the payload of
\* the datagram just received and its source address describe.
FoundFromDatagram ==
    /\ Len(calls') = Len(calls) + 1
    /\ SubSeq(calls', 1, Len(calls)) = calls
    /\ Last(calls').address = lastRx'[1].src
    /\ Last(calls').device_id = Split(lastRx'[1].data, "|")[2]
    /\ Last(calls').name = Split(lastRx'[1].data, "|")[3]
    /\ Last(calls').http_port = IntOf(Split(lastRx'[1].data, "|")[4])

\* The tasks of a kind that are alive: spawned and not yet returned.
Alive(pc) == {i \in Threads : pc[i] \notin {"idle", "done"}}

(***************************************************************************)
(* C1. Announcements are sent to the UDP port on which listeners receive   *)
(* (the discovery port 8766): every datagram a broadcaster has put on the  *)
(* broadcast domain is addressed to the port the listeners bind, so that   *)
(* a peer's listener can receive it and register the sender.               *)
(***************************************************************************)
C1_AnnouncedOnListenPort == \A m \in net : m.dport = DISCOVERY_PORT

(***************************************************************************)
(* C2. Every received well-formed announcement whose peer id differs from  *)
(* the local id, whatever its source address, makes the listener invoke    *)
(* on_device_found with a Device whose address is the source IP and whose  *)
(* device_id, name and http_port are the payload fields.                   *)
(***************************************************************************)
C2_EveryPeerAnnouncementFound ==
    [][(/\ Received
        /\ WellFormed(lastRx'[1].data)
        /\ Split(lastRx'[1].data, "|")[2] # LocalId)
       => FoundFromDatagram]_vars

(***************************************************************************)
(* C2, amended. The same for every such announcement whose source address  *)
(* differs from the address _get_local_ip() returns when it is received.   *)
(***************************************************************************)
C2_PeerAnnouncementFromOtherHostFound ==
    [][(/\ Received
        /\ WellFormed(lastRx'[1].data)
        /\ Split(lastRx'[1].data, "|")[2] # LocalId
        /\ lastRx'[1].src # lastRx'[1].local_ip)
       => FoundFromDatagram]_vars

C2_Witness ==
    /\ lastRx # <<>>
    /\ WellFormed(lastRx[1].data)
    /\ Split(lastRx[1].data, "|")[2] = PeerId
    /\ lastRx[1].src = OtherIp
    /\ calls # <<>>
    /\ Last(calls).address = OtherIp
    /\ Last(calls).http_port = 9090

(***************************************************************************)
(* C3. A received announcement whose peer id equals the local device id    *)
(* never causes on_device_found to be invoked, whatever its source         *)
(* address, name and port.                                                 *)
(***************************************************************************)
C3_SelfAnnouncementNeverFound ==
    [][(Received /\ SelfAnnouncement(lastRx'[1].data)) => calls' = calls]_vars

C3_Witness ==
    /\ lastRx # <<>>
    /\ SelfAnnouncement(lastRx[1].data)
    /\ lastRx[1].src = PeerIp
    /\ lastRx[1].local_ip = HostIp
    /\ lpc[lastRx[1].by] = "check"

(***************************************************************************)
(* C4. A received datagram that is not a well-formed announcement never    *)
(* invokes on_device_found and never ends the listener: after handling it  *)
(* the listener is back in its receive loop.                               *)
(***************************************************************************)
C4_MalformedNeverFound ==
    [][(Received /\ Malformed(lastRx'[1].data))
       => (calls' = calls /\ lpc'[lastRx'[1].by] = "check")]_vars

(***************************************************************************)
(* C5. The registry never holds two entries for one device id, and an      *)
(* announcement from an id that is already registered leaves the number of *)
(* entries unchanged.                                                      *)
(***************************************************************************)
C5_OneEntryPerId ==
    /\ [](\A k1, k2 \in DOMAIN devices :
            devices[k1].device_id = devices[k2].device_id => k1 = k2)
    /\ [][(/\ Len(calls') = Len(calls) + 1
           /\ \E k \in DOMAIN devices : devices[k].device_id = Last(calls').device_id)
          => Cardinality(DOMAIN devices') = Cardinality(DOMAIN devices)]_vars

C5_Witness ==
    /\ Len(calls) >= 2
    /\ calls[1].device_id = calls[2].device_id
    /\ calls[1].address # calls[2].address
    /\ Cardinality(DOMAIN devices) = 1
    /\ nWs = 0

(***************************************************************************)
(* C6. The registry is last-write-wins per id: with only the discovery     *)
(* callback writing, the entry of an id holds the address, http port and   *)
(* last-seen value of the most recent announcement received for that id.   *)
(***************************************************************************)
LastCallFor(id) ==
    calls[CHOOSE k \in 1..Len(calls) :
            /\ calls[k].device_id = id
            /\ \A j \in (k + 1)..Len(calls) : calls[j].device_id # id]

C6_LastWriteWins ==
    nWs = 0 =>
        \A id \in DOMAIN devices :
            /\ devices[id].address = LastCallFor(id).address
            /\ devices[id].http_port = LastCallFor(id).http_port
            /\ devices[id].last_seen = LastCallFor(id).last_seen

(***************************************************************************)
(* C7. stop() interrupts the broadcaster's interval wait: a broadcaster    *)
(* that is blocked in its wait between two announcements when stop() is    *)
(* called is woken by the call, and does not stay blocked for the          *)
(* remainder of its interval.                                              *)
(***************************************************************************)
C7_StopInterruptsWait ==
    [][(running /\ ~running')
       => \A j \in Threads : bpc[j] = "wait" => bpc'[j] # "wait"]_vars

(***************************************************************************)
(* C8. start() is idempotent: a start() on a service that is already       *)
(* running creates no task, so a service never has more than one listener  *)
(* or more than one broadcaster alive.                                     *)
(***************************************************************************)
C8_StartIdempotent ==
    /\ [][(running /\ nStarts' = nStarts + 1) => (lpc' = lpc /\ bpc' = bpc)]_vars
    /\ [](Cardinality(Alive(lpc)) <= 1 /\ Cardinality(Alive(bpc)) <= 1)

(***************************************************************************)
(* C9. For every client-supplied filename, also one with directory         *)
(* components, the upload is written as a direct child of the destination  *)
(* directory and its record is named by the bare final component: no file  *)
(* is ever written outside the destination directory.                      *)
(***************************************************************************)
C9_UploadStaysInDirectory ==
    /\ [](\A p \in DOMAIN files : Parent(p) = SaveDir)
    /\ [][\A r \in Reqs :
            (reqs[r].pc = "idle" /\ reqs'[r].pc # "idle" /\ reqs'[r].hasPart)
            => (reqs'[r].pc = "reading" /\ Parent(reqs'[r].path) = SaveDir)]_vars
    /\ [][\A r \in Reqs :
            (reqs[r].pc = "reading" /\ reqs'[r].status = 200 /\ reqs[r].filename # NoFilename)
            => /\ reqs[r].file_id \in DOMAIN received_files'
               /\ received_files'[reqs[r].file_id].name = <<Last(reqs[r].filename)>>]_vars

(***************************************************************************)
(* C10. An upload never overwrites an existing file: a file present before *)
(* is left unchanged, and two completed uploads with the same display name *)
(* are two distinct files on disk, each holding its own content.           *)
(***************************************************************************)
C10_NeverOverwrites ==
    /\ \A p \in DOMAIN files0 : p \in DOMAIN files /\ files[p] = files0[p]
    /\ \A r1, r2 \in Reqs :
         (/\ r1 # r2
          /\ reqs[r1].status = 200
          /\ reqs[r2].status = 200
          /\ reqs[r1].filename = reqs[r2].filename)
         => /\ reqs[r1].path # reqs[r2].path
            /\ files[reqs[r1].path] = reqs[r1].body
            /\ files[reqs[r2].path] = reqs[r2].body

(***************************************************************************)
(* C15. No entry of the device registry has the id of the local device,    *)
(* whichever path wrote it (discovery callback or WebSocket announce).     *)
(***************************************************************************)
C15_NoSelfInRegistry == \A k \in DOMAIN devices : devices[k].device_id # LocalId

(***************************************************************************)
(* C16. device_found is delivered at most once per newly learned id: no id *)
(* is reported twice between two clears of the registry. The ids in the    *)
(* registry are those reported since it was last cleared (every write of   *)
(* an entry reports it, and only a clear removes entries), so a report is  *)
(* a repeated one exactly when its id is in the registry already.          *)
(***************************************************************************)
C16_FoundOncePerId ==
    [][\A n \in (Len(events) + 1)..Len(events') :
          events'[n].type = "device_found" => events'[n].id \notin DOMAIN devices]_vars

(***************************************************************************)
(* C20. The registry has a single writer: its entries change only in a     *)
(* step that invokes the discovery callback _on_device_found, or by the    *)
(* clear of the GUI refresh; WebSocket message handling leaves it alone.   *)
(***************************************************************************)
C20_SingleWriter ==
    [][devices' # devices
       => (Len(calls') = Len(calls) + 1 \/ devices' = EmptyDict)]_vars

(***************************************************************************)
(* C17. While the service is running the listener does not terminate: a    *)
(* receive timeout and any other socket error during receive make it go on *)
(* looping; a listener ends only when the service has been stopped (where  *)
(* the service is started once and never stopped: it never ends).          *)
(***************************************************************************)
C17_ListenerSurvivesErrors ==
    [][\A i \in Threads : (lpc[i] # "done" /\ lpc'[i] = "done") => ~running]_vars

(***************************************************************************)
(* C18. A failure to create the socket or to send in the broadcaster is    *)
(* swallowed: the broadcaster goes on to its wait and does not end while   *)
(* the service runs, and after the wait, the service still running, it     *)
(* attempts another announcement.                                          *)
(***************************************************************************)
C18_SendErrorSwallowed ==
    /\ [][\A j \in Threads :
            /\ (bpc[j] = "except" /\ bpc'[j] # "except") => bpc'[j] = "wait"
            /\ (bpc[j] = "wait" /\ bpc'[j] # "wait") => bpc'[j] = "check"
            /\ (bpc[j] = "check" /\ bpc'[j] # "check" /\ running) => bpc'[j] = "send"
            /\ (bpc[j] # "done" /\ bpc'[j] = "done") => ~running]_vars
    /\ \A j \in Threads : (bpc[j] = "except") ~> (bpc[j] = "send" \/ ~running)

\* The send of the only broadcaster has failed while the service runs.
C18_Witness ==
    /\ running
    /\ nStarts = 1
    /\ bpc[1] = "except"

(***************************************************************************)
(* Vocabulary of the claims about uploads.                                 *)
(***************************************************************************)
\* The request carried a file part: a first part with a filename.
IsFilePart(req) == req.hasPart /\ req.filename # NoFilename

\* This step is the handler of request r returning its success response.
Completes(r) == reqs[r].pc = "reading" /\ reqs'[r].pc = "done" /\ reqs'[r].status = 200

\* This step is the handler of request r ending in a server error.
Fails(r) == reqs[r].status # 500 /\ reqs'[r].status = 500

(***************************************************************************)
(* C11. An upload request without a file part (no part at all, or a first  *)
(* part that is no file field and has no filename) is answered 400 and has *)
(* no other effect: no file written, received_files unchanged, no          *)
(* file_received notification.                                             *)
(***************************************************************************)
C11_NoFilePartRejected ==
    /\ [](\A r \in Reqs :
            (reqs[r].pc # "idle" /\ ~IsFilePart(reqs[r]) /\ reqs[r].status # 500)
            => (reqs[r].pc = "done" /\ reqs[r].status = 400))
    /\ [][\A r \in Reqs :
            (reqs[r].pc = "idle" /\ reqs'[r].pc # "idle" /\ ~IsFilePart(reqs'[r])
             /\ reqs'[r].status # 500)
            => (files' = files /\ received_files' = received_files
                /\ fileEvents' = fileEvents)]_vars

(***************************************************************************)
(* C12. Each upload that completes with a success response creates exactly *)
(* one received-file record and emits exactly one file_received            *)
(* notification; the record is stored under the id of the response and its *)
(* size is the number of bytes written; a record once created is never     *)
(* modified or replaced by a later upload.                                 *)
(***************************************************************************)
C12_OneRecordPerUpload ==
    [][/\ \A r \in Reqs :
            Completes(r)
            => /\ Cardinality(DOMAIN received_files')
                    = Cardinality(DOMAIN received_files) + 1
               /\ Len(fileEvents') = Len(fileEvents) + 1
               /\ Last(fileEvents').id = reqs[r].file_id
               /\ reqs[r].file_id \in DOMAIN received_files'
               /\ received_files'[reqs[r].file_id].size = Len(reqs[r].body)
       /\ \A id \in DOMAIN received_files :
            /\ id \in DOMAIN received_files'
            /\ received_files'[id] = received_files[id]]_vars

(***************************************************************************)
(* C19. An I/O or protocol error while an upload is handled (mkdir, open,  *)
(* write or read_chunk raises) ends that request with a server error, adds *)
(* no received-file record and emits no notification, and leaves every     *)
(* other request as it was: those in progress can still go on.             *)
(***************************************************************************)
C19_IoErrorFailsRequestOnly ==
    /\ [][\A r \in Reqs :
            Fails(r)
            => /\ reqs'[r].pc = "done"
               /\ received_files' = received_files
               /\ fileEvents' = fileEvents
               /\ \A q \in Reqs \ {r} : reqs'[q] = reqs[q]]_vars
    /\ [](\A r \in Reqs :
            reqs[r].pc = "reading" => ENABLED (UploadChunk(r) \/ UploadFinish(r)))

\* The first request failed while its body was read; the second, begun while
\* the first was in progress, completed after it.
C19_Witness ==
    /\ reqs[1].status = 500
    /\ reqs[1].path # <<>>
    /\ reqs[2].status = 200
    /\ Len(fileEvents) = 1
    /\ DOMAIN received_files = {reqs[2].file_id}
    /\ reqs[1].file_id # reqs[2].file_id

(***************************************************************************)
(* C13. _upload_file returns True only if its HTTP POST to the peer        *)
(* completed with a success status: whenever it has returned True, the     *)
(* answer to the POST was a 2xx status.                                    *)
(***************************************************************************)
C13_TrueOnlyOnPostSuccess ==
    (snd.result = <<TRUE>>) => (snd.hops # <<>> /\ Success(snd.hops[1]))

(***************************************************************************)
(* C14. End to end: a send of a file of content B to a Device that points  *)
(* at the running receiver reaches a route the receiver serves and returns *)
(* True; the receiver has stored one record for it, under the id of its    *)
(* response, with size Len(B), has emitted one notification for each       *)
(* upload it completed, and the file on disk holds exactly B.              *)
(***************************************************************************)
C14_EndToEnd ==
    (snd.result # <<>> /\ snd.req # 0)
    => /\ snd.result = <<TRUE>>
       /\ reqs[snd.req].status = 200
       /\ reqs[snd.req].file_id \in DOMAIN received_files
       /\ received_files[reqs[snd.req].file_id].size = Len(snd.file[1].data)
       /\ received_files[reqs[snd.req].file_id].path = reqs[snd.req].path
       /\ reqs[snd.req].path \in DOMAIN files
       /\ files[reqs[snd.req].path] = snd.file[1].data
       /\ Len(fileEvents) = Cardinality({r \in Reqs : reqs[r].status = 200})
       /\ Last(fileEvents).id = reqs[snd.req].file_id
       /\ Last(fileEvents).size = Len(snd.file[1].data)

\* A file whose content has a CRLF and dashes in it has been sent and stored.
C14_Witness ==
    /\ snd.result = <<TRUE>>
    /\ snd.req # 0
    /\ snd.file[1].data = <<"y", CR, LF, "--">>
    /\ files[reqs[snd.req].path] = <<"y", CR, LF, "--">>
    /\ received_files[reqs[snd.req].file_id].size = 4

(***************************************************************************)
(* C21. Peers are never removed automatically: across announcements,       *)
(* uploads, sends, start and stop, an id present in the device registry    *)
(* stays present; the set of registered ids loses an id only in a step     *)
(* that is the clear of the GUI refresh.                                   *)
(***************************************************************************)
C21_RemovedOnlyByRefresh ==
    [][(\E id \in DOMAIN devices : id \notin DOMAIN devices') => Refresh]_vars

\* Two peers are registered, and the server has since answered an upload,
\* sent a file and been stopped.
C21_Witness ==
    /\ Cardinality(DOMAIN devices) = 2
    /\ nStarts > 0
    /\ ~running
    /\ sent.n > 0
    /\ reqs[1].pc = "done"

(***************************************************************************)
(* C22. After stop() with no later start(), the listener thread and the    *)
(* broadcaster thread both terminate eventually, wherever in their loops   *)
(* (before the bind, in recvfrom, sending, in the wait) stop() found them. *)
(***************************************************************************)
C22_StopTerminatesBoth ==
    (nStarts > 0 /\ ~running) ~> (Alive(lpc) = {} /\ Alive(bpc) = {})

\* Stopped after the listener had been in recvfrom on its bound socket and
\* the broadcaster had sent: both threads have ended.
C22_Witness ==
    /\ nStarts = 1
    /\ ~running
    /\ lsock[1] = 1
    /\ sockState[1] = "closed"
    /\ BroadcastDatagram(HostIp, LocalId, LocalName, HTTP_PORT) \in net
    /\ lpc[1] = "done"
    /\ bpc[1] = "done"

\* Some request issued by send_file_to_device was a POST answered 2xx.
Posted ==
    \E k \in 1..Len(sent.requests) :
        sent.requests[k].method = "POST" /\ Success(sent.requests[k].status)

\* Nothing answers at the address and port of the device of the last call.
Unreachable ==
    Listener(sent.last[1].device.address, sent.last[1].device.http_port)
        \in {"silent", "closed"}

(***************************************************************************)
(* C23. send_file_to_device returns True, adds an entry to sent_files and  *)
(* emits file_sent only if an HTTP POST carrying the file to the peer was  *)
(* answered with a success status; when the peer is unreachable it returns *)
(* False and has recorded nothing.                                         *)
(***************************************************************************)
C23_ServerSendOnlyOnPostSuccess ==
    /\ (sent.last # <<>> /\ sent.last[1].result) => Posted
    /\ sent.sent_files # EmptyDict => Posted
    /\ sent.events # <<>> => Posted
    /\ (sent.last # <<>> /\ sent.n = 1 /\ Unreachable)
       => (~sent.last[1].result /\ sent.sent_files = EmptyDict /\ sent.events = <<>>)

(***************************************************************************)
(* C24. Announcement round trip: for every device id, display name and     *)
(* HTTP port, the datagram the broadcaster builds, handled by the          *)
(* _handle_message of a device with another id, yields a Device with that  *)
(* id, that name and that HTTP port, also when the name holds a '|'.       *)
(***************************************************************************)
C24_AnnounceRoundTrip ==
    rt # <<>>
    => /\ rt[1].found # <<>>
       /\ rt[1].found[1].device_id = rt[1].device_id
       /\ rt[1].found[1].name = rt[1].device_name
       /\ rt[1].found[1].http_port = rt[1].http_port

\* Thread i was spawned by a start() that a stop() and a later start() have
\* followed: every start of the scenario is made on a stopped service.
SpawnedBeforeStop(i) == i < nStarts

(***************************************************************************)
(* C25. Restart does not duplicate tasks: after stop() followed by         *)
(* start(), a thread spawned before the stop() does not go round its loop  *)
(* again: a broadcaster that was in its wait does not pass the loop test   *)
(* and send, a listener does not return to recvfrom.                       *)
(***************************************************************************)
C25_RestartDoesNotDuplicate ==
    [][\A i \in Threads :
         SpawnedBeforeStop(i)
         => /\ ~(bpc[i] = "check" /\ bpc'[i] = "send")
            /\ ~(lpc[i] = "check" /\ lpc'[i] = "recv")]_vars

(***************************************************************************)
(* C26. The listener socket is released on stop: in every interleaving of  *)
(* start() and stop(), also when stop() runs before the listener thread    *)
(* has created and stored its socket, once the service is stopped and its  *)
(* listener threads have terminated, no socket is bound to the discovery   *)
(* port.                                                                   *)
(***************************************************************************)
C26_SocketReleasedOnStop ==
    (nStarts > 0 /\ ~running /\ Alive(lpc) = {}) => ~PortBound

====
